---- MODULE Spec2Model ----
(***************************************************************************)
(* Model of lib/webworker.js: the WorkerMaster singleton (the maps         *)
(* workers, workerStreams, workerMsgQueue, its addWorker and postMessage,  *)
(* the connection handler with its handshake listener, and handleMessage)  *)
(* and the Worker constructor with its postMessage and exit listener.      *)
(***************************************************************************)
EXTENDS Integers, Sequences, FiniteSets, TLC

(* ------------------------------ bounds --------------------------------- *)
\* the workers spawned, connections accepted and payloads passed in a run
MaxSize == 4

(* ------------------------- program constants --------------------------- *)
MSGTYPE_NOOP == 0
MSGTYPE_HANDSHAKE == 1
MSGTYPE_USER == 2
\* a type tag no case of handleMessage's switch names (the header's example)
ExampleType == 999
\* cp.pid of a terminated child process is null; null is no launcher pid
NullPid == 0

\* the launcher's pids: one per Worker at most (a pid is free again once its
\* process has exited)
Pids == 1..MaxSize
Keys == Pids \cup {NullPid}

(* --------------------------- JavaScript values ------------------------- *)
Num(n) == [type |-> "number", v |-> n]
Obj(n) == [type |-> "object", v |-> n]
Array(es) == [isArray |-> TRUE, elems |-> es]
NotArray == [isArray |-> FALSE, elems |-> <<>>]

\* payloads the host posts, and those a worker sends back
Payloads == {Obj(1), Obj(2)}
(* --------------------- JavaScript objects used as maps ----------------- *)
EmptyObj == [k \in {} |-> 0]
Has(o, k) == k \in DOMAIN o
Put(o, k, v) == [x \in (DOMAIN o) \cup {k} |-> IF x = k THEN v ELSE o[x]]
Del(o, k) == [x \in (DOMAIN o) \ {k} |-> o[x]]

(* ------------------------------- state --------------------------------- *)
VARIABLES
    workers,         \* pid -> Worker (index into cp)
    workerStreams,   \* pid -> MsgStream (index into ms)
    workerMsgQueue,  \* pid -> array of payloads waiting for the handshake
    cp,              \* per Worker: its child process, [pid, alive]
    onmessage,       \* per Worker: whether the caller has set w.onmessage
    inbox,           \* per Worker: the payloads its onmessage was called with
    ms,              \* per connection: [ended, listeners, out]
    wire,            \* per connection: the units received but not yet raised
    posted,          \* history: per pid, the payloads postMessage accepted
    first,           \* history: per connection, how its first 'msg' ended
    everBound,       \* history: per pid, the binds ever made, [conn, flushed]
    last             \* the last operation and how it ended

vars == <<workers, workerStreams, workerMsgQueue, cp, onmessage, inbox, ms,
          wire, posted, first, everBound, last>>

Handles == 1..Len(cp)
Conns == 1..Len(ms)

\* cp.pid: the launcher's pid while the process runs, null afterwards
cp_pid(h) == IF cp[h].alive THEN cp[h].pid ELSE NullPid

HandshakeL == [kind |-> "handshake", pid |-> NullPid]
DispatchL(pid) == [kind |-> "handleMessage", pid |-> pid]

Op(op, id, outcome) == [op |-> op, id |-> id, outcome |-> outcome]

\* the broker-side state the listeners read and write
Broker ==
    [workers |-> workers, workerStreams |-> workerStreams,
     workerMsgQueue |-> workerMsgQueue, onmessage |-> onmessage,
     inbox |-> inbox, ms |-> ms, outcome |-> "none"]

(* ----------------------------- MsgStream ------------------------------- *)
\* ms.send(envelope): the envelope is written to the stream it is handed to
Send(b, c, env) ==
    [b EXCEPT !.ms[c].out = Append(@, env)]

\* faulty variant: the connection is left open
End_leftOpen(b, c, why) ==
    [b EXCEPT !.outcome = why]

\* s.end(): the socket's write side is closed; the stream keeps its
\* listeners, and units that still arrive are raised to them
End(b, c, why) ==
    [b EXCEPT !.ms[c].ended = TRUE, !.outcome = why]

\* wwutil.isValidMessage(msg): a two-element array with an integer type
isValidMessage(m) ==
    m.isArray /\ Len(m.elems) = 2 /\ m.elems[1].type = "number"

UserEnvelope(msg) == Array(<<Num(MSGTYPE_USER), msg>>)

\* faulty variant: the queue is flushed last-in first-out
RECURSIVE SendAll_reversed(_, _, _)
SendAll_reversed(b, c, q) ==
    IF q = <<>> THEN b
    ELSE Send(SendAll_reversed(b, c, Tail(q)), c, UserEnvelope(Head(q)))

\* workerMsgQueue[pid].forEach(function (m) { ms.send([MSGTYPE_USER, m]) })
RECURSIVE SendAll(_, _, _)
SendAll(b, c, q) ==
    IF q = <<>> THEN b
    ELSE SendAll(Send(b, c, UserEnvelope(Head(q))), c, Tail(q))

(* ---------------------------- WorkerMaster ----------------------------- *)
addWorker(w, pid, h) == Put(w, pid, h)

\* faulty variant: a waiting payload is put at the front of the queue
postMessage_unshift(b, pid, msg) ==
    IF ~Has(b.workers, pid) THEN [b EXCEPT !.outcome = "AssertionError"]
    ELSE IF Has(b.workerStreams, pid)
    THEN [Send(b, b.workerStreams[pid], UserEnvelope(msg))
            EXCEPT !.outcome = "sent"]
    ELSE LET q == IF Has(b.workerMsgQueue, pid)
                  THEN b.workerMsgQueue[pid] ELSE <<>>
         IN [b EXCEPT !.workerMsgQueue = Put(@, pid, <<msg>> \o q),
                      !.outcome = "queued"]

\* faulty variant: the envelope is written twice to a bound worker's stream
postMessage_sendTwice(b, pid, msg) ==
    IF ~Has(b.workers, pid) THEN [b EXCEPT !.outcome = "AssertionError"]
    ELSE IF Has(b.workerStreams, pid)
    THEN [Send(Send(b, b.workerStreams[pid], UserEnvelope(msg)),
               b.workerStreams[pid], UserEnvelope(msg))
            EXCEPT !.outcome = "sent"]
    ELSE LET q == IF Has(b.workerMsgQueue, pid)
                  THEN b.workerMsgQueue[pid] ELSE <<>>
         IN [b EXCEPT !.workerMsgQueue = Put(@, pid, Append(q, msg)),
                      !.outcome = "queued"]

\* faulty variant: no assertion that the pid has a Worker
postMessage_noAssert(b, pid, msg) ==
    IF Has(b.workerStreams, pid)
    THEN [Send(b, b.workerStreams[pid], UserEnvelope(msg))
            EXCEPT !.outcome = "sent"]
    ELSE LET q == IF Has(b.workerMsgQueue, pid)
                  THEN b.workerMsgQueue[pid] ELSE <<>>
         IN [b EXCEPT !.workerMsgQueue = Put(@, pid, Append(q, msg)),
                      !.outcome = "queued"]

\* faulty variant: the payload is also kept in the queue of a bound worker
postMessage_alsoQueue(b, pid, msg) ==
    IF ~Has(b.workers, pid) THEN [b EXCEPT !.outcome = "AssertionError"]
    ELSE LET q == IF Has(b.workerMsgQueue, pid)
                  THEN b.workerMsgQueue[pid] ELSE <<>>
             b1 == [b EXCEPT !.workerMsgQueue = Put(@, pid, Append(q, msg)),
                             !.outcome = "queued"]
         IN IF Has(b.workerStreams, pid)
            THEN [Send(b1, b.workerStreams[pid], UserEnvelope(msg))
                    EXCEPT !.outcome = "sent"]
            ELSE b1

\* self.postMessage(pid, msg): the new maps, or the assertion's failure
postMessage(b, pid, msg) ==
    IF ~Has(b.workers, pid) THEN [b EXCEPT !.outcome = "AssertionError"]
    ELSE IF Has(b.workerStreams, pid)
    THEN [Send(b, b.workerStreams[pid], UserEnvelope(msg))
            EXCEPT !.outcome = "sent"]
    ELSE LET q == IF Has(b.workerMsgQueue, pid)
                  THEN b.workerMsgQueue[pid] ELSE <<>>
         IN [b EXCEPT !.workerMsgQueue = Put(@, pid, Append(q, msg)),
                      !.outcome = "queued"]

\* faulty variant: the NOOP case falls through to the USER case
handleMessage_fallThrough(b, pid, m) ==
    IF ~Has(b.workers, pid) THEN [b EXCEPT !.outcome = "AssertionError"]
    ELSE IF ~isValidMessage(m) THEN [b EXCEPT !.outcome = "invalid"]
    ELSE IF m.elems[1] \in {Num(MSGTYPE_NOOP), Num(MSGTYPE_USER)}
    THEN LET ww == b.workers[pid]
         IN IF b.onmessage[ww]
            THEN [b EXCEPT !.inbox[ww] = Append(@, m.elems[2]),
                           !.outcome = "onmessage"]
            ELSE [b EXCEPT !.outcome = "dropped"]
    ELSE [b EXCEPT !.outcome = IF m.elems[1] = Num(MSGTYPE_HANDSHAKE)
                               THEN "unexpected handshake"
                               ELSE "unexpected"]

\* faulty variant: an unexpected type drops the worker's binding
handleMessage_unbind(b, pid, m) ==
    IF ~Has(b.workers, pid) THEN [b EXCEPT !.outcome = "AssertionError"]
    ELSE IF ~isValidMessage(m) THEN [b EXCEPT !.outcome = "invalid"]
    ELSE IF m.elems[1] = Num(MSGTYPE_NOOP) THEN [b EXCEPT !.outcome = "noop"]
    ELSE IF m.elems[1] = Num(MSGTYPE_USER)
    THEN LET ww == b.workers[pid]
         IN IF b.onmessage[ww]
            THEN [b EXCEPT !.inbox[ww] = Append(@, m.elems[2]),
                           !.outcome = "onmessage"]
            ELSE [b EXCEPT !.outcome = "dropped"]
    ELSE [b EXCEPT !.workerStreams = Del(@, pid),
                   !.outcome = IF m.elems[1] = Num(MSGTYPE_HANDSHAKE)
                               THEN "unexpected handshake"
                               ELSE "unexpected"]

\* faulty variant: an invalid message ends the worker's stream
handleMessage_endInvalid(b, pid, m) ==
    IF ~Has(b.workers, pid) THEN [b EXCEPT !.outcome = "AssertionError"]
    ELSE IF ~isValidMessage(m)
    THEN IF Has(b.workerStreams, pid)
         THEN End(b, b.workerStreams[pid], "invalid")
         ELSE [b EXCEPT !.outcome = "invalid"]
    ELSE IF m.elems[1] = Num(MSGTYPE_NOOP) THEN [b EXCEPT !.outcome = "noop"]
    ELSE IF m.elems[1] = Num(MSGTYPE_USER)
    THEN LET ww == b.workers[pid]
         IN IF b.onmessage[ww]
            THEN [b EXCEPT !.inbox[ww] = Append(@, m.elems[2]),
                           !.outcome = "onmessage"]
            ELSE [b EXCEPT !.outcome = "dropped"]
    ELSE [b EXCEPT !.outcome = IF m.elems[1] = Num(MSGTYPE_HANDSHAKE)
                               THEN "unexpected handshake"
                               ELSE "unexpected"]

\* handleMessage(pid, msg, fd)
handleMessage(b, pid, m) ==
    IF ~Has(b.workers, pid) THEN [b EXCEPT !.outcome = "AssertionError"]
    ELSE IF ~isValidMessage(m) THEN [b EXCEPT !.outcome = "invalid"]
    ELSE IF m.elems[1] = Num(MSGTYPE_NOOP) THEN [b EXCEPT !.outcome = "noop"]
    ELSE IF m.elems[1] = Num(MSGTYPE_USER)
    THEN LET ww == b.workers[pid]
         IN IF b.onmessage[ww]
            THEN [b EXCEPT !.inbox[ww] = Append(@, m.elems[2]),
                           !.outcome = "onmessage"]
            ELSE [b EXCEPT !.outcome = "dropped"]
    ELSE [b EXCEPT !.outcome = IF m.elems[1] = Num(MSGTYPE_HANDSHAKE)
                               THEN "unexpected handshake"
                               ELSE "unexpected"]

\* faulty variant: a handshake for an already bound pid binds again
HandshakeListener_rebind(b, c, m) ==
    IF \/ ~m.isArray
       \/ Len(m.elems) # 2
       \/ m.elems[1] # Num(MSGTYPE_HANDSHAKE)
       \/ m.elems[2].type # "number"
    THEN End(b, c, "malformed")
    ELSE LET pid == m.elems[2].v
         IN IF ~Has(b.workers, pid)
            THEN End(b, c, "pid unknown")
            ELSE LET b1 == [b EXCEPT
                              !.workerStreams = Put(@, pid, c),
                              !.ms[c].listeners =
                                  Append(IF @ = <<>> THEN @ ELSE Tail(@),
                                         DispatchL(pid)),
                              !.outcome = "bound"]
                 IN IF Has(b1.workerMsgQueue, pid)
                    THEN [SendAll(b1, c, b1.workerMsgQueue[pid])
                            EXCEPT !.workerMsgQueue = Del(@, pid)]
                    ELSE b1

\* faulty variant: the bind drops every identity's queue, not only its own
HandshakeListener_clearQueues(b, c, m) ==
    IF \/ ~m.isArray
       \/ Len(m.elems) # 2
       \/ m.elems[1] # Num(MSGTYPE_HANDSHAKE)
       \/ m.elems[2].type # "number"
    THEN End(b, c, "malformed")
    ELSE LET pid == m.elems[2].v
         IN IF ~Has(b.workers, pid) \/ Has(b.workerStreams, pid)
            THEN End(b, c, IF Has(b.workers, pid)
                           THEN "pid already bound" ELSE "pid unknown")
            ELSE LET b1 == [b EXCEPT
                              !.workerStreams = Put(@, pid, c),
                              !.ms[c].listeners =
                                  Append(IF @ = <<>> THEN @ ELSE Tail(@),
                                         DispatchL(pid)),
                              !.outcome = "bound"]
                 IN IF Has(b1.workerMsgQueue, pid)
                    THEN [SendAll(b1, c, b1.workerMsgQueue[pid])
                            EXCEPT !.workerMsgQueue = EmptyObj]
                    ELSE [b1 EXCEPT !.workerMsgQueue = EmptyObj]

\* faulty variant: the handshake listener is not removed at the bind
HandshakeListener_noShift(b, c, m) ==
    IF \/ ~m.isArray
       \/ Len(m.elems) # 2
       \/ m.elems[1] # Num(MSGTYPE_HANDSHAKE)
       \/ m.elems[2].type # "number"
    THEN End(b, c, "malformed")
    ELSE LET pid == m.elems[2].v
         IN IF ~Has(b.workers, pid) \/ Has(b.workerStreams, pid)
            THEN End(b, c, IF Has(b.workers, pid)
                           THEN "pid already bound" ELSE "pid unknown")
            ELSE LET b1 == [b EXCEPT
                              !.workerStreams = Put(@, pid, c),
                              !.ms[c].listeners = Append(@, DispatchL(pid)),
                              !.outcome = "bound"]
                 IN IF Has(b1.workerMsgQueue, pid)
                    THEN [SendAll(b1, c, b1.workerMsgQueue[pid])
                            EXCEPT !.workerMsgQueue = Del(@, pid)]
                    ELSE b1

\* faulty variant: the bind deletes the queue without writing its payloads
HandshakeListener_noFlush(b, c, m) ==
    IF \/ ~m.isArray
       \/ Len(m.elems) # 2
       \/ m.elems[1] # Num(MSGTYPE_HANDSHAKE)
       \/ m.elems[2].type # "number"
    THEN End(b, c, "malformed")
    ELSE LET pid == m.elems[2].v
         IN IF ~Has(b.workers, pid) \/ Has(b.workerStreams, pid)
            THEN End(b, c, IF Has(b.workers, pid)
                           THEN "pid already bound" ELSE "pid unknown")
            ELSE [b EXCEPT
                    !.workerStreams = Put(@, pid, c),
                    !.ms[c].listeners =
                        Append(IF @ = <<>> THEN @ ELSE Tail(@),
                               DispatchL(pid)),
                    !.workerMsgQueue = Del(@, pid),
                    !.outcome = "bound"]

\* faulty variant: the bind writes the queued payloads and keeps the queue
HandshakeListener_keepQueue(b, c, m) ==
    IF \/ ~m.isArray
       \/ Len(m.elems) # 2
       \/ m.elems[1] # Num(MSGTYPE_HANDSHAKE)
       \/ m.elems[2].type # "number"
    THEN End(b, c, "malformed")
    ELSE LET pid == m.elems[2].v
         IN IF ~Has(b.workers, pid) \/ Has(b.workerStreams, pid)
            THEN End(b, c, IF Has(b.workers, pid)
                           THEN "pid already bound" ELSE "pid unknown")
            ELSE LET b1 == [b EXCEPT
                              !.workerStreams = Put(@, pid, c),
                              !.ms[c].listeners =
                                  Append(IF @ = <<>> THEN @ ELSE Tail(@),
                                         DispatchL(pid)),
                              !.outcome = "bound"]
                 IN IF Has(b1.workerMsgQueue, pid)
                    THEN SendAll(b1, c, b1.workerMsgQueue[pid])
                    ELSE b1

\* the listener the connection handler installs on a new MsgStream
HandshakeListener(b, c, m) ==
    IF \/ ~m.isArray
       \/ Len(m.elems) # 2
       \/ m.elems[1] # Num(MSGTYPE_HANDSHAKE)
       \/ m.elems[2].type # "number"
    THEN End(b, c, "malformed")
    ELSE LET pid == m.elems[2].v
         IN IF ~Has(b.workers, pid) \/ Has(b.workerStreams, pid)
            THEN End(b, c, IF Has(b.workers, pid)
                           THEN "pid already bound" ELSE "pid unknown")
            ELSE LET b1 == [b EXCEPT
                              !.workerStreams = Put(@, pid, c),
                              \* ms.listeners('msg').shift(), then addListener
                              !.ms[c].listeners =
                                  Append(IF @ = <<>> THEN @ ELSE Tail(@),
                                         DispatchL(pid)),
                              !.outcome = "bound"]
                 IN IF Has(b1.workerMsgQueue, pid)
                    THEN [SendAll(b1, c, b1.workerMsgQueue[pid])
                            EXCEPT !.workerMsgQueue = Del(@, pid)]
                    ELSE b1

RunListener(b, c, l, m) ==
    IF l.kind = "handshake" THEN HandshakeListener(b, c, m)
    ELSE handleMessage(b, l.pid, m)

\* ms.emit('msg', m): every listener installed when the event is raised
RECURSIVE RunListeners(_, _, _, _)
RunListeners(b, c, ls, m) ==
    IF ls = <<>> THEN b
    ELSE RunListeners(RunListener(b, c, Head(ls), m), c, Tail(ls), m)

Emit(b, c, m) == RunListeners(b, c, b.ms[c].listeners, m)

(* ------------------------------ helpers -------------------------------- *)
RECURSIVE SumLen(_, _)
SumLen(f, S) ==
    IF S = {} THEN 0
    ELSE LET x == CHOOSE y \in S : TRUE
         IN Len(f[x]) + SumLen(f, S \ {x})

\* payloads accepted by postMessage plus payloads handed to onmessage
Traffic == SumLen(posted, Keys) + SumLen(inbox, Handles)

\* the workers, the connections, the payloads passed and the units in flight
Size == Len(cp) + Len(ms) + Traffic + SumLen(wire, Conns)

\* the Worker constructor has spawned its child (line 174) and has not yet
\* reached master.addWorker (line 197)
Unregistered ==
    /\ Len(cp) > 0
    /\ IF Has(workers, cp[Len(cp)].pid)
       THEN workers[cp[Len(cp)].pid] # Len(cp)
       ELSE TRUE

\* faulty variant: events are handled before the constructor has registered
\* the Worker (addWorker put off to a later turn of the event loop)
Constructing_deferred == FALSE

\* the constructor runs to completion: no event handler and no other call of
\* the host runs between its statements
Constructing == Unregistered

\* the pids a handshake may name: the registered ones and one that is not
HandshakePids == (DOMAIN workers) \cup {Cardinality(DOMAIN workers) + 1}

\* decoded units a MsgStream may raise as 'msg': no array, arrays of the
\* wrong length, handshakes with a numeric or another payload, the other type
\* tags with a numeric payload, and user messages
InMsgs ==
    {NotArray, Array(<<Num(MSGTYPE_HANDSHAKE)>>),
     Array(<<Num(MSGTYPE_HANDSHAKE), Num(1), Num(1)>>)}
    \cup {Array(<<Num(MSGTYPE_HANDSHAKE), x>>) :
              x \in {Num(p) : p \in HandshakePids} \cup {Obj(1)}}
    \cup {Array(<<Num(t), Num(1)>>) : t \in {MSGTYPE_NOOP, ExampleType}}
    \cup {Array(<<Num(MSGTYPE_USER), x>>) : x \in Payloads}

\* the bindings b makes that the maps did not hold before, each with the
\* number of envelopes the bind wrote to its channel and the Worker that was
\* registered for the pid at the bind
NewBindings(b, p) ==
    IF Has(b.workerStreams, p) /\ ~Has(workerStreams, p)
    THEN LET c == b.workerStreams[p]
         IN {[conn |-> c, flushed |-> Len(b.ms[c].out) - Len(ms[c].out),
              handle |-> b.workers[p]]}
    ELSE {}

(* ------------------------------- Init ---------------------------------- *)
Init ==
    /\ workers = EmptyObj
    /\ workerStreams = EmptyObj
    /\ workerMsgQueue = EmptyObj
    /\ cp = <<>>
    /\ onmessage = <<>>
    /\ inbox = <<>>
    /\ ms = <<>>
    /\ wire = <<>>
    /\ posted = [p \in Keys |-> <<>>]
    /\ first = <<>>
    /\ everBound = [p \in Keys |-> {}]
    /\ last = Op("init", 0, "none")

(* ------------------------------ actions -------------------------------- *)
\* new Worker(src), lines 162-195: the child is spawned and its listeners
\* are added; the launcher gives it the pid p
Spawn(p) ==
    /\ ~Constructing
    /\ Size < MaxSize
    /\ \A h \in Handles : cp[h].alive => cp[h].pid # p
    \* pids are opaque: of the never-used ones the launcher's choice is
    \* taken to be the lowest
    /\ \A q \in Pids : q < p => \E h \in Handles : cp[h].pid = q
    /\ cp' = Append(cp, [pid |-> p, alive |-> TRUE])
    /\ onmessage' = Append(onmessage, FALSE)
    /\ inbox' = Append(inbox, <<>>)
    /\ last' = Op("spawn", Len(cp) + 1, "running")
    /\ UNCHANGED <<workers, workerStreams, workerMsgQueue, ms, wire, posted,
                   first, everBound>>

\* new Worker(src), line 197: master.addWorker(cp.pid, self)
Register ==
    /\ Unregistered
    /\ workers' = addWorker(workers, cp[Len(cp)].pid, Len(cp))
    /\ last' = Op("Worker", Len(cp), "registered")
    /\ UNCHANGED <<workerStreams, workerMsgQueue, cp, onmessage, inbox, ms,
                   wire, posted, first, everBound>>

\* w.onmessage = function (...) {...}
SetOnmessage(h) ==
    /\ ~Constructing
    /\ ~onmessage[h]
    /\ onmessage' = [onmessage EXCEPT ![h] = TRUE]
    /\ last' = Op("onmessage=", h, "set")
    /\ UNCHANGED <<workers, workerStreams, workerMsgQueue, cp, inbox, ms,
                   wire, posted, first, everBound>>

\* faulty variant: the exit listener removes the worker from the maps
Exit_unregister(h) ==
    /\ ~Constructing
    /\ cp[h].alive
    /\ cp' = [cp EXCEPT ![h].alive = FALSE]
    /\ workers' = Del(workers, cp[h].pid)
    /\ workerStreams' = Del(workerStreams, cp[h].pid)
    /\ workerMsgQueue' = Del(workerMsgQueue, cp[h].pid)
    /\ last' = Op("exit", h, "logged")
    /\ UNCHANGED <<onmessage, inbox, ms, wire, posted, first, everBound>>

\* the child's 'exit' event: the listener logs; cp.pid becomes null
Exit(h) ==
    /\ ~Constructing
    /\ cp[h].alive
    /\ cp' = [cp EXCEPT ![h].alive = FALSE]
    /\ last' = Op("exit", h, "logged")
    /\ UNCHANGED <<workers, workerStreams, workerMsgQueue, onmessage, inbox,
                   ms, wire, posted, first, everBound>>

\* w.postMessage(msg): master.postMessage(cp.pid, msg)
WorkerPostMessage(h, msg) ==
    LET pid == cp_pid(h)
        b == postMessage(Broker, pid, msg)
        ok == b.outcome # "AssertionError"
    IN /\ ~Constructing
       /\ Size + (IF ok THEN 1 ELSE 0) <= MaxSize
       /\ workerStreams' = b.workerStreams
       /\ workerMsgQueue' = b.workerMsgQueue
       /\ ms' = b.ms
       /\ posted' = IF ok THEN [posted EXCEPT ![pid] = Append(@, msg)]
                    ELSE posted
       /\ last' = Op("postMessage", pid, b.outcome)
       /\ UNCHANGED <<workers, cp, onmessage, inbox, wire, first, everBound>>

\* net.createServer's connection callback: a MsgStream with the handshake
\* listener; the server exists once the first Worker has made the master
Connect ==
    /\ ~Constructing
    /\ Len(cp) > 0
    /\ Size < MaxSize
    /\ ms' = Append(ms, [ended |-> FALSE, listeners |-> <<HandshakeL>>,
                         out |-> <<>>])
    /\ wire' = Append(wire, <<>>)
    /\ first' = Append(first, "none")
    /\ last' = Op("connection", Len(ms) + 1, "listening")
    /\ UNCHANGED <<workers, workerStreams, workerMsgQueue, cp, onmessage,
                   inbox, posted, everBound>>

\* the 'msg' event of connection c with the decoded unit m: what its
\* listeners make of the broker's state
Raise(c, m) ==
    LET b == Emit(Broker, c, m)
    IN /\ ~Constructing
       /\ workerStreams' = b.workerStreams
       /\ workerMsgQueue' = b.workerMsgQueue
       /\ ms' = b.ms
       /\ inbox' = b.inbox
       /\ first' = IF first[c] # "none" THEN first
                   ELSE [first EXCEPT ![c] = IF b.outcome = "bound"
                                             THEN "handshake" ELSE "rejected"]
       /\ everBound' = [p \in Keys |-> everBound[p] \cup NewBindings(b, p)]
       /\ last' = Op("msg", c, b.outcome)
       /\ UNCHANGED <<workers, cp, onmessage, posted>>

\* the MsgStream of connection c raises 'msg' with the decoded unit m as soon
\* as the unit has arrived
Receive(c, m) ==
    /\ wire[c] = <<>>
    /\ Raise(c, m)
    /\ Size + (SumLen(inbox', Handles) - SumLen(inbox, Handles)) <= MaxSize
    /\ UNCHANGED wire

Next ==
    \/ \E p \in Pids : Spawn(p)
    \/ Register
    \/ \E h \in Handles : SetOnmessage(h)
    \/ \E h \in Handles : Exit(h)
    \/ \E h \in Handles, msg \in Payloads : WorkerPostMessage(h, msg)
    \/ Connect
    \/ \E c \in Conns, m \in InMsgs : Receive(c, m)

Spec == Init /\ [][Next]_vars

(* ------------------------- claims: vocabulary -------------------------- *)
\* the USER envelope of a payload, as the wire format has it
ExpectedEnv(msg) == [isArray |-> TRUE, elems |-> <<Num(2), msg>>]
ExpectedEnvs(q) == [i \in 1..Len(q) |-> ExpectedEnv(q[i])]

Bound(pid) == Has(workerStreams, pid)
BoundConns == {workerStreams[p] : p \in DOMAIN workerStreams}
QueueOf(pid) == IF Has(workerMsgQueue, pid) THEN workerMsgQueue[pid] ELSE <<>>

\* m is [HANDSHAKE, pid] with a numeric pid
WellFormedHandshake(m) ==
    /\ m.isArray
    /\ Len(m.elems) = 2
    /\ m.elems[1] = Num(1)
    /\ m.elems[2].type = "number"

\* m is a valid handshake in the current state: it names a registered,
\* unbound identity
ValidHandshake(m) ==
    /\ WellFormedHandshake(m)
    /\ Has(workers, m.elems[2].v)
    /\ ~Bound(m.elems[2].v)

AwaitingHandshake(c) == ms[c].listeners = <<HandshakeL>>

(* -------------------------------- C1 ----------------------------------- *)
\* C1: a successful handshake for an identity writes to the channel it binds
\* the payloads of all postMessage calls made for that identity so far, as
\* USER envelopes in call order, and the identity has no pending queue in
\* the state right after the handshake step.
C1_FlushInCallOrder ==
    [][\A c \in Conns, m \in InMsgs :
          (Receive(c, m) /\ last'.outcome = "bound") =>
              LET pid == m.elems[2].v
              IN /\ ms[c].out = <<>>
                 /\ ms'[c].out = ExpectedEnvs(posted[pid])
                 /\ ~Has(workerMsgQueue', pid)]_vars

\* the handshake has just bound an identity for which two different payloads
\* were waiting
C1_Witness ==
    /\ last.op = "msg" /\ last.outcome = "bound"
    /\ \E pid \in DOMAIN workerStreams :
          /\ workerStreams[pid] = last.id
          /\ Len(posted[pid]) >= 2
          /\ posted[pid][1] # posted[pid][2]
          /\ Len(ms[last.id].out) = Len(posted[pid])

(* -------------------------------- C2 ----------------------------------- *)
\* C2: in every state, for every identity, what has been written to its
\* channel followed by what is waiting in its queue is the payloads of its
\* postMessage calls in call order; a bound identity has everything written
\* (nothing waits), an unbound one has nothing written, and channels bound to
\* no identity carry nothing.
C2_ChannelOrderIsCallOrder ==
    /\ \A pid \in Keys :
          IF Bound(pid)
          THEN /\ ms[workerStreams[pid]].out = ExpectedEnvs(posted[pid])
               /\ QueueOf(pid) = <<>>
          ELSE QueueOf(pid) = posted[pid]
    /\ \A c \in Conns : c \notin BoundConns => ms[c].out = <<>>

\* a payload was flushed by the handshake and a different one was posted
\* after the bind, in the last step
C2_Witness ==
    /\ last.op = "postMessage" /\ last.outcome = "sent"
    /\ Bound(last.id)
    /\ \E r \in everBound[last.id] : r.flushed = 1
    /\ Len(posted[last.id]) = 2
    /\ posted[last.id][1] # posted[last.id][2]

(* -------------------------------- C3 ----------------------------------- *)
\* C3: when the first envelope on a connection is not a valid handshake (not
\* an array of two, a tag other than HANDSHAKE, a non-numeric payload, an
\* unregistered or an already bound identity), the connection is closed, no
\* binding is made, no assertion fails, and workers, workerStreams and
\* workerMsgQueue are unchanged.
C3_BadFirstEnvelopeCloses ==
    [][\A c \in Conns, m \in InMsgs :
          (Receive(c, m) /\ first[c] = "none" /\ ~ValidHandshake(m)) =>
              /\ ms'[c].ended
              /\ last'.outcome \in
                     {"malformed", "pid unknown", "pid already bound"}
              /\ workers' = workers
              /\ workerStreams' = workerStreams
              /\ workerMsgQueue' = workerMsgQueue
              /\ ms'[c].out = <<>>]_vars

\* a connection's first envelope, a handshake naming an identity that
\* another connection is bound to, has just been turned down
C3_Witness ==
    /\ last.op = "msg" /\ last.outcome = "pid already bound"
    /\ first[last.id] = "rejected"
    /\ ms[last.id].ended
    /\ last.id \notin BoundConns
    /\ \E pid \in DOMAIN workerStreams : workerStreams[pid] # last.id

(* -------------------------------- C4 ----------------------------------- *)
\* C4: a connection whose first envelope was not a valid handshake is never
\* bound to an identity afterwards and keeps no steady-state dispatcher.
C4_RejectedNeverBound ==
    \A c \in Conns :
        first[c] = "rejected" => (c \notin BoundConns /\ AwaitingHandshake(c))

(* -------------------------------- C5 ----------------------------------- *)
\* C5: no identity is ever bound to more than one channel; a binding, once
\* made, stays as it is in every later step; and a handshake that names a
\* bound identity binds nothing (on a connection awaiting its handshake it
\* closes the connection, on a bound connection it is an unexpected type).
C5_OneChannelPerIdentity ==
    /\ [](\A pid \in Keys : Cardinality(everBound[pid]) <= 1)
    /\ [][/\ \A pid \in DOMAIN workerStreams :
                /\ Has(workerStreams', pid)
                /\ workerStreams'[pid] = workerStreams[pid]
          /\ \A c \in Conns, m \in InMsgs :
                (/\ Receive(c, m)
                 /\ WellFormedHandshake(m)
                 /\ Bound(m.elems[2].v)) =>
                    /\ workerStreams' = workerStreams
                    /\ IF AwaitingHandshake(c)
                       THEN /\ last'.outcome = "pid already bound"
                            /\ ms'[c].ended
                       ELSE last'.outcome = "unexpected handshake"]_vars

\* a second connection has just named, in its handshake, an identity that is
\* bound to the first connection
C5_Witness ==
    /\ last.op = "msg" /\ last.outcome = "pid already bound"
    /\ Len(ms) >= 2
    /\ \E pid \in DOMAIN workerStreams :
          /\ workerStreams[pid] # last.id
          /\ everBound[pid] # {}
          /\ \A r \in everBound[pid] : r.conn = workerStreams[pid]

(* -------------------------------- C6 ----------------------------------- *)
\* C6: postMessage for an identity with a bound channel appends exactly one
\* USER envelope with the given payload to that channel, writes nothing to
\* any other channel and leaves every pending queue as it was.
C6_BoundPostWritesOnce ==
    [][\A h \in Handles, msg \in Payloads :
          (WorkerPostMessage(h, msg) /\ Bound(cp_pid(h))) =>
              LET c == workerStreams[cp_pid(h)]
              IN /\ ms'[c].out = Append(ms[c].out, ExpectedEnv(msg))
                 /\ \A d \in Conns \ {c} : ms'[d] = ms[d]
                 /\ workerMsgQueue' = workerMsgQueue
                 /\ last'.outcome = "sent"]_vars

\* a payload has just been written to the channel of a bound identity
C6_Witness ==
    /\ last.op = "postMessage" /\ last.outcome = "sent"
    /\ Bound(last.id)
    /\ ms[workerStreams[last.id]].out # <<>>
    /\ workerMsgQueue = EmptyObj

(* -------------------------------- C7 ----------------------------------- *)
\* C7: postMessage for an identity without a Worker in the registry fails
\* with the assertion's error and changes nothing: no record, no binding, no
\* queue (none is created for that identity) and nothing written.
C7_UnknownWorkerFails ==
    [][\A h \in Handles, msg \in Payloads :
          (WorkerPostMessage(h, msg) /\ ~Has(workers, cp_pid(h))) =>
              /\ last'.outcome = "AssertionError"
              /\ workers' = workers
              /\ workerStreams' = workerStreams
              /\ workerMsgQueue' = workerMsgQueue
              /\ ms' = ms
              /\ posted' = posted]_vars

\* a postMessage has just failed for an identity that has no record
C7_Witness ==
    /\ last.op = "postMessage" /\ last.outcome = "AssertionError"
    /\ ~Has(workers, last.id)
    /\ ~Has(workerMsgQueue, last.id)

(* -------------------------------- C8 ----------------------------------- *)
\* C8: registering a Worker under an identity that already has a record
\* fails with DuplicateIdentity and leaves the record as it was; under a
\* fresh identity it adds a record with no channel and no waiting payloads.
C8_DuplicateIdentityFails ==
    [][\A p \in Pids :
          (Register /\ p = cp[Len(cp)].pid) =>
              IF Has(workers, p)
              THEN /\ last'.outcome = "DuplicateIdentity"
                   /\ workers' = workers
              ELSE /\ workers'[p] = Len(cp')
                   /\ ~Has(workerStreams', p)
                   /\ ~Has(workerMsgQueue', p)]_vars

(* -------------------------------- C9 ----------------------------------- *)
\* C9 as stated: every USER envelope received on a bound channel calls the
\* identity's onmessage exactly once with the payload.
C9_EveryUserEnvelopeCallsBack ==
    [][\A c \in Conns, m \in InMsgs :
          (/\ Receive(c, m)
           /\ ~AwaitingHandshake(c)
           /\ isValidMessage(m)
           /\ m.elems[1] = Num(2)) =>
              LET h == workers[ms[c].listeners[1].pid]
              IN inbox' = [inbox EXCEPT ![h] = Append(@, m.elems[2])]]_vars

\* C9 as amended: a USER envelope received on a bound channel calls the
\* onmessage of the Worker registered for the channel's identity exactly once
\* with the payload, after all earlier calls, when that Worker has an
\* onmessage set, and calls nothing when it has none; a NOOP envelope calls
\* nothing.
C9_UserEnvelopeCallsBackIfSet ==
    [][\A c \in Conns, m \in InMsgs :
          (Receive(c, m) /\ ~AwaitingHandshake(c) /\ isValidMessage(m)) =>
              LET h == workers[ms[c].listeners[1].pid]
              IN /\ (m.elems[1] = Num(2) /\ onmessage[h]) =>
                        inbox' = [inbox EXCEPT ![h] = Append(@, m.elems[2])]
                 /\ (m.elems[1] = Num(2) /\ ~onmessage[h]) => inbox' = inbox
                 /\ m.elems[1] = Num(0) => inbox' = inbox]_vars

\* the second of two different payloads has just been handed to onmessage
C9_Witness ==
    /\ last.op = "msg" /\ last.outcome = "onmessage"
    /\ \E h \in Handles :
          /\ Len(inbox[h]) = 2
          /\ inbox[h][1] # inbox[h][2]
          /\ onmessage[h]

(* -------------------------------- C10 ---------------------------------- *)
\* C10: a well-formed envelope with a type other than NOOP and USER received
\* on a bound channel calls nothing, does not close the connection, leaves
\* the bindings and the channel's listener as they were, and a USER envelope
\* received next on that channel is still handled by handleMessage.
C10_UnexpectedTypeIgnored ==
    [][\A c \in Conns, m \in InMsgs :
          (/\ Receive(c, m)
           /\ ~AwaitingHandshake(c)
           /\ isValidMessage(m)
           /\ m.elems[1] \notin {Num(0), Num(2)}) =>
              /\ last'.outcome \in {"unexpected", "unexpected handshake"}
              /\ inbox' = inbox
              /\ ms' = ms
              /\ workerStreams' = workerStreams
              /\ workerMsgQueue' = workerMsgQueue
              /\ \A x \in Payloads :
                    Emit(Broker', c, ExpectedEnv(x)).outcome
                        \in {"onmessage", "dropped"}]_vars

\* an envelope of an unexpected type has just been ignored on a bound, open
\* channel
C10_Witness ==
    /\ last.op = "msg" /\ last.outcome = "unexpected"
    /\ last.id \in BoundConns
    /\ ~ms[last.id].ended

(* -------------------------------- C11 ---------------------------------- *)
\* m fails the shape and type validation of an envelope
MalformedFrame(m) ==
    \/ ~m.isArray
    \/ Len(m.elems) # 2
    \/ m.elems[1].type # "number"

\* C11 as stated: an envelope that fails validation closes the connection it
\* arrived on, on a bound channel as well as before the handshake, and calls
\* no callback.
C11_MalformedFrameCloses ==
    [][\A c \in Conns, m \in InMsgs :
          (Receive(c, m) /\ MalformedFrame(m)) =>
              /\ ms'[c].ended
              /\ inbox' = inbox]_vars

\* C11: an envelope that fails validation calls no callback and changes no
\* registry record, binding or queue; it closes the connection when the
\* connection still awaits its handshake, and on a bound channel it is
\* logged and ignored, the connection staying as it was.
C11_MalformedFrameClosesBeforeBind ==
    [][\A c \in Conns, m \in InMsgs :
          (Receive(c, m) /\ MalformedFrame(m)) =>
              /\ inbox' = inbox
              /\ workers' = workers
              /\ workerStreams' = workerStreams
              /\ workerMsgQueue' = workerMsgQueue
              /\ IF AwaitingHandshake(c)
                 THEN /\ ms'[c].ended
                      /\ last'.outcome = "malformed"
                 ELSE /\ ms' = ms
                      /\ last'.outcome = "invalid"]_vars

\* an invalid envelope has just been ignored on a bound channel that is
\* still open
C11_Witness ==
    /\ last.op = "msg" /\ last.outcome = "invalid"
    /\ last.id \in BoundConns
    /\ ~ms[last.id].ended

(* -------------------------------- C12 ---------------------------------- *)
\* the entry of key k is the same in the objects o1 and o2
SameEntry(o1, o2, k) ==
    /\ Has(o1, k) <=> Has(o2, k)
    /\ Has(o1, k) => o1[k] = o2[k]

\* C12: an envelope received on a connection c, valid or not, leaves as they
\* were the record, the binding, the queue and the callbacks of every
\* identity other than the one c is bound to or the one a successful
\* handshake on c names, leaves every other connection as it was, and fails
\* no assertion of the broker.
C12_EnvelopeTouchesOnlyItsIdentity ==
    [][\A c \in Conns, m \in InMsgs :
          Receive(c, m) =>
              LET own == {p \in DOMAIN workerStreams : workerStreams[p] = c}
                         \cup (IF last'.outcome = "bound"
                               THEN {m.elems[2].v} ELSE {})
              IN /\ \A p \in Keys \ own :
                       /\ SameEntry(workers', workers, p)
                       /\ SameEntry(workerStreams', workerStreams, p)
                       /\ SameEntry(workerMsgQueue', workerMsgQueue, p)
                       /\ Has(workers, p) =>
                              inbox'[workers[p]] = inbox[workers[p]]
                 /\ \A d \in Conns \ {c} : ms'[d] = ms[d]
                 /\ last'.outcome # "AssertionError"]_vars

\* a handshake has just bound one identity while another registered
\* identity has payloads waiting
C12_Witness ==
    /\ last.op = "msg" /\ last.outcome = "bound"
    /\ \E p \in DOMAIN workers :
          /\ ~Bound(p)
          /\ QueueOf(p) # <<>>

(* -------------------------------- C13 ---------------------------------- *)
\* C13: a handshake that names the pid of a spawned child is never turned
\* down for naming an unregistered pid: the Worker is registered before any
\* 'msg' event is handled.
C13_SpawnedWorkerIsRegistered ==
    [][\A c \in Conns, m \in InMsgs :
          (/\ Receive(c, m)
           /\ WellFormedHandshake(m)
           /\ \E h \in Handles : cp[h].pid = m.elems[2].v) =>
              last'.outcome # "pid unknown"]_vars

\* the handshake of the child spawned last, still running, has just been
\* accepted on a connection made after the spawn
C13_Witness ==
    /\ last.op = "msg" /\ last.outcome = "bound"
    /\ Len(cp) > 0
    /\ cp[Len(cp)].alive
    /\ Bound(cp[Len(cp)].pid)
    /\ workerStreams[cp[Len(cp)].pid] = last.id
    /\ workers[cp[Len(cp)].pid] = Len(cp)

(* -------------------------------- C14 ---------------------------------- *)
\* C14: no identity has, in any reachable state, both a bound channel and a
\* non-empty pending queue.
C14_QueueOnlyWhileUnbound ==
    \A pid \in Keys : ~(Bound(pid) /\ QueueOf(pid) # <<>>)

\* an identity whose payloads had waited was bound, and a later payload
\* posted for it has gone to its channel, not to a queue
C14_Witness ==
    /\ last.op = "postMessage" /\ last.outcome = "sent"
    /\ Bound(last.id)
    /\ \E r \in everBound[last.id] : r.flushed > 0
    /\ QueueOf(last.id) = <<>>

(* -------------------------------- C15 ---------------------------------- *)
\* C15: the only 'msg' listener of a bound connection is the dispatcher of
\* the pid it is bound to; an envelope received on it is never handled by
\* the handshake listener, and a HANDSHAKE envelope received on it leaves the
\* connection open and every connection and binding as they were.
C15_BoundConnectionOnlyDispatches ==
    /\ [](\A pid \in DOMAIN workerStreams :
             ms[workerStreams[pid]].listeners = <<DispatchL(pid)>>)
    /\ [][\A c \in Conns, m \in InMsgs :
             (Receive(c, m) /\ c \in BoundConns) =>
                 /\ workerStreams' = workerStreams
                 /\ ms'[c].listeners = ms[c].listeners
                 /\ ms'[c].ended = ms[c].ended
                 /\ last'.outcome \notin {"malformed", "pid unknown",
                                          "pid already bound", "bound"}
                 /\ (/\ m.isArray
                     /\ Len(m.elems) = 2
                     /\ m.elems[1] = Num(1)) =>
                        /\ ms' = ms
                        /\ last'.outcome = "unexpected handshake"]_vars

\* a HANDSHAKE envelope has just been received on a bound connection, which
\* is still open
C15_Witness ==
    /\ last.op = "msg" /\ last.outcome = "unexpected handshake"
    /\ last.id \in BoundConns
    /\ ~ms[last.id].ended
    /\ first[last.id] = "handshake"

(* -------------------------------- C16 ---------------------------------- *)
\* C16: the 'exit' event of a worker's child leaves workers, workerStreams,
\* workerMsgQueue and every connection as they were: the worker's record,
\* binding and queue are the same after it as before it.
C16_ExitChangesNothing ==
    [][\A h \in Handles :
          Exit(h) =>
              /\ workers' = workers
              /\ workerStreams' = workerStreams
              /\ workerMsgQueue' = workerMsgQueue
              /\ ms' = ms
              /\ SameEntry(workers', workers, cp[h].pid)
              /\ Has(workers', cp[h].pid)]_vars

\* the child of a registered, bound worker has just exited and the worker
\* still has its record and its binding
C16_Witness ==
    /\ last.op = "exit"
    /\ ~cp[last.id].alive
    /\ Has(workers, cp[last.id].pid)
    /\ workers[cp[last.id].pid] = last.id
    /\ Bound(cp[last.id].pid)

(* ------------------- the event loop, with fairness --------------------- *)
\* a unit sent by the peer of connection c has arrived and waits for the
\* event loop to raise it
Arrive(c, m) ==
    /\ Size < MaxSize
    /\ wire' = [wire EXCEPT ![c] = Append(@, m)]
    /\ UNCHANGED <<workers, workerStreams, workerMsgQueue, cp, onmessage,
                   inbox, ms, posted, first, everBound, last>>

\* the event loop raises 'msg' for the unit of connection c that has waited
\* longest
Deliver(c) ==
    /\ c \in Conns
    /\ wire[c] # <<>>
    /\ Raise(c, Head(wire[c]))
    /\ wire' = [wire EXCEPT ![c] = Tail(@)]

LiveNext ==
    \/ \E p \in Pids : Spawn(p)
    \/ Register
    \/ \E h \in Handles : SetOnmessage(h)
    \/ \E h \in Handles : Exit(h)
    \/ \E h \in Handles, msg \in Payloads : WorkerPostMessage(h, msg)
    \/ Connect
    \/ \E c \in Conns, m \in InMsgs : Arrive(c, m)
    \/ \E c \in Conns : Deliver(c)

\* a constructor that has begun runs to its end, and the event loop raises
\* the event of every unit that has arrived
LiveSpec ==
    /\ Init
    /\ [][LiveNext]_vars
    /\ WF_vars(Register)
    /\ \A c \in 1..MaxSize : WF_vars(Deliver(c))

(* -------------------------------- C17 ---------------------------------- *)
\* the HANDSHAKE envelope that names pid p
HandshakeOf(p) ==
    [isArray |-> TRUE, elems |-> <<Num(1), Num(p)>>]

\* the pairs of a connection c and a pid p for which a unit can wait on c
\* while p is registered: pids are given out lowest first, so p workers, c
\* connections and the unit are within MaxSize
Waits == {w \in (1..MaxSize) \X Pids : w[1] + w[2] < MaxSize}

\* C17: when the first unit of a connection is a HANDSHAKE that names a
\* registered, unbound pid and waits to be raised, then eventually that pid
\* is bound and every payload posted for it is on its channel, none waiting.
C17_HandshakeEventuallyBinds ==
    \A w \in Waits :
      LET c == w[1]
          p == w[2]
      IN
        (/\ c \in Conns
         /\ first[c] = "none"
         /\ wire[c] # <<>>
         /\ Head(wire[c]) = HandshakeOf(p)
         /\ Has(workers, p)
         /\ ~Bound(p))
        ~> (/\ Bound(p)
            /\ QueueOf(p) = <<>>
            /\ ms[workerStreams[p]].out = ExpectedEnvs(posted[p]))

\* the handshake that had waited on a connection has just been raised and
\* has bound its pid, whose waiting payloads are now on the channel
C17_Witness ==
    /\ last.op = "msg" /\ last.outcome = "bound"
    /\ wire[last.id] = <<>>
    /\ \E p \in DOMAIN workerStreams :
          /\ workerStreams[p] = last.id
          /\ posted[p] # <<>>
          /\ \E r \in everBound[p] : r.conn = last.id /\ r.flushed > 0
          /\ ms[last.id].out = ExpectedEnvs(posted[p])

(* -------------------------------- C18 ---------------------------------- *)
\* how many elements of the sequence q are x
Count(q, x) == Cardinality({i \in 1..Len(q) : q[i] = x})

\* what has been written to the channel of pid
WrittenTo(pid) == IF Bound(pid) THEN ms[workerStreams[pid]].out ELSE <<>>

\* C18: for every identity and every payload, the calls of postMessage that
\* were accepted for the identity with that payload are as many as the
\* payload's copies in the identity's queue and on its channel together;
\* nothing else is on any channel or in any queue, and an identity's queue
\* is flushed at most once.
C18_EachPayloadOnce ==
    /\ \A pid \in Keys, x \in Payloads :
          Count(posted[pid], x) =
              Count(QueueOf(pid), x) + Count(WrittenTo(pid), ExpectedEnv(x))
    /\ SumLen(posted, Keys) =
          SumLen(workerMsgQueue, DOMAIN workerMsgQueue)
              + SumLen([c \in Conns |-> ms[c].out], Conns)
    /\ \A pid \in Keys :
          /\ Cardinality(everBound[pid]) <= 1
          /\ \A r \in everBound[pid] : r.flushed <= Len(posted[pid])

\* the same payload was posted twice for an identity, once before its bind,
\* which flushed it, and once after, in the last step
C18_Witness ==
    /\ last.op = "postMessage" /\ last.outcome = "sent"
    /\ Bound(last.id)
    /\ \E r \in everBound[last.id] : r.flushed = 1
    /\ \E x \in Payloads : posted[last.id] = <<x, x>>
    /\ ~Has(workerMsgQueue, last.id)

(* -------------------------------- C19 ---------------------------------- *)
\* C19: every call of a Worker's postMessage calls the master's postMessage
\* with the pid the Worker was registered under, also after its child has
\* exited, and so never fails the assertion on workers[pid].
C19_HandlePostsUnderItsOwnPid ==
    [][\A h \in Handles, msg \in Payloads :
          WorkerPostMessage(h, msg) =>
              /\ last'.id = cp[h].pid
              /\ last'.outcome # "AssertionError"]_vars

(* -------------------------------- C20 ---------------------------------- *)
\* the Workers whose child connection c belongs to: the Worker that was
\* registered, when c was bound, for the pid its handshake named
OwnersOf(c) ==
    {r.handle : r \in {x \in UNION {everBound[p] : p \in Keys} : x.conn = c}}

\* C20: also when a pid is used again by a later Worker, a payload posted
\* through a Worker is written only to the channel of that Worker's own
\* child, and a USER envelope received on a channel calls only the onmessage
\* of the Worker whose child the channel belongs to.
C20_ReusedPidKeepsWorkersApart ==
    /\ [][\A h \in Handles, msg \in Payloads :
             WorkerPostMessage(h, msg) =>
                 \A c \in Conns :
                     ms'[c].out # ms[c].out => h \in OwnersOf(c)]_vars
    /\ [][\A c \in Conns, m \in InMsgs :
             Receive(c, m) =>
                 \A h \in Handles :
                     inbox'[h] # inbox[h] => h \in OwnersOf(c)]_vars

====
